---- MODULE Spec2Model ----
(***************************************************************************)
(* wallrnd: the periodic grid tiler (src/src/tesselate.rs), the position   *)
(* primitives it relies on (src/src/pos.rs), the paint regions and the     *)
(* scene compositor (src/src/scene.rs) and the generation pass of main     *)
(* (src/src/main.rs).                                                      *)
(*                                                                         *)
(* Coordinates are f64 in the source.  A coordinate is modelled exactly:   *)
(* it is the rational n / 2^56, and n is held in three limbs               *)
(* <<a, b, c>> with n = a * Limb^2 + b * Limb + c, Limb = 2^20,            *)
(* 0 <= b, c < Limb.  The limb a alone is the coordinate in units of       *)
(* 1/Unit (Unit = 2^16); it is the field x (or y) of a position, and the   *)
(* two low limbs are the field xf (or yf).  Every arithmetic result goes   *)
(* through Fl, the rounding of the exact result to the 53-bit significand  *)
(* of f64 (round to nearest, ties to even).                                *)
(***************************************************************************)
EXTENDS Integers, Sequences, FiniteSets, TLC

VARIABLES
    f,        \* tiler: the Frame, [w, h]
    idir,     \* tiler: first basis vector
    jdir,     \* tiler: second basis vector
    gen_n,    \* tiler: how many (Pos, Path) pairs gen returns per site
    set,      \* tiler: the HashSet of enqueued positions
    stk,      \* tiler: the work stack (top = last element)
    items,    \* tiler: the Vec of (Pos, Path) pairs collected so far
    calls,    \* tiler: log of the positions gen was invoked on
    pc,       \* tiler: "loop" inside the while loop, "done" after return
    scene,    \* main: the Scene, [bg, items]
    tiling,   \* main: the Vec<(Pos, Path)> make_tiling returned
    stroke,   \* main: cfg.line_color
    stroke_width, \* main: cfg.line_width, in 1/100000
    document, \* main: the elements added to the Document, in order
    queries,  \* main: log of the calls of Scene::color, [p, hit, sampled]
    mpc,      \* main: "tiling" in the generation loop, "generated" after it
    call,     \* a call of one function: [fn, ...arguments]
    ret,      \* its result: [done, v, panic]
    rpc,      \* run of main: the statement main is at
    args,     \* run of main: the command line, the fields of struct Args
    features, \* run of main: the cargo features of the build
    frame,    \* run of main: cfg.frame
    files,    \* run of main: the content of each file of the file system
    ntiles,   \* run of main: the length of the tiling make_tiling returned
    colored,  \* run of main: how many pairs the generation loop has colored
    status,   \* run of main: the exit status, -1 while main runs
    events    \* run of main: log of the steps taken, [step, frame, io, files]

tilerVars == <<f, idir, jdir, gen_n, set, stk, items, calls, pc>>

mainVars == <<scene, tiling, stroke, stroke_width, document, queries, mpc>>

callVars == <<call, ret>>

runVars == <<rpc, args, features, frame, files, ntiles, colored, status, events>>

vars == <<tilerVars, mainVars, callVars, runVars>>

----------------------------------------------------------------------------
(* Bounds of the model.                                                    *)

MaxW == 2
MaxH == 2
MaxGen == 2
MaxPops == 400

(* Number of model units in 1.0: 2^16.                                     *)
Unit == 2^16

(* Significand width of f64.                                               *)
F64Sig == 53

----------------------------------------------------------------------------
(* Float arithmetic.                                                       *)

(* Radix of the limbs of a number: 2^20.                                   *)
Limb == 2^20

Abs(n) == IF n < 0 THEN -n ELSE n

RECURSIVE BitLen(_)
BitLen(n) == IF n = 0 THEN 0 ELSE 1 + BitLen(n \div 2)

(* Carry propagation: the limbs of the number whose (unnormalised) limbs   *)
(* are t.                                                                  *)
Norm(t) ==
    LET Of(v) ==
            LET c  == v[3] % Limb
                b0 == v[2] + (v[3] - c) \div Limb
                b  == b0 % Limb
            IN  <<v[1] + (b0 - b) \div Limb, b, c>>
    IN  CHOOSE r \in { Of(v) : v \in {t} } : TRUE

NumOf(n) == <<n, 0, 0>>

NumAdd(s, t) == Norm(<<s[1] + t[1], s[2] + t[2], s[3] + t[3]>>)

NumMul(t, k) == Norm(<<t[1] * k, t[2] * k, t[3] * k>>)

NumSgn(t) == IF t[1] < 0 THEN -1 ELSE 1

NumAbs(t) == IF t[1] < 0 THEN NumMul(t, -1) ELSE t

(* Round-to-nearest, ties-to-even, of the exact result t to the F64Sig     *)
(* significant bits of f64 (t is bound to its value v before use, so that  *)
(* it is evaluated once).  The bits to drop all lie in the lowest limb     *)
(* for every magnitude the model holds (below 2^17); a number whose two    *)
(* low limbs are 0 has 31 significant bits at most and is not rounded.     *)
Fl(t) ==
    LET Of(v) ==
            LET m    == NumAbs(v)
                drop == BitLen(m[1]) + 2 * BitLen(Limb - 1) - F64Sig
            IN  IF (v[2] = 0 /\ v[3] = 0) \/ drop <= 0 THEN v
                ELSE LET q    == 2^drop
                         r    == m[3] % q
                         base == m[3] - r
                         odd  == IF q = Limb THEN m[2] % 2 = 1
                                 ELSE (base \div q) % 2 = 1
                         up   == IF 2 * r > q \/ (2 * r = q /\ odd)
                                 THEN base + q ELSE base
                     IN  NumMul(Norm(<<m[1], m[2], up>>), NumSgn(v))
    IN  CHOOSE r \in { Of(v) : v \in {t} } : TRUE

(* f64::round: to the nearest integer, half-way cases away from zero.      *)
(* The result is a plain integer.                                          *)
RoundHalfAway(t) ==
    LET Of(v) ==
            LET m == NumAbs(v)
            IN  NumSgn(v) * (m[1] \div Unit
                             + (IF m[1] % Unit >= Unit \div 2 THEN 1 ELSE 0))
    IN  CHOOSE r \in { Of(v) : v \in {t} } : TRUE

----------------------------------------------------------------------------
(* Pos (src/src/pos.rs).  li, lj are ghost fields: the lattice coordinate  *)
(* the position was reached at; no operator of the program reads them.     *)
(* An operand is bound to its value (u, v) before use, so that it is       *)
(* evaluated once.                                                         *)

PosOf(tx, ty, i, j) ==
    CHOOSE r \in { [x |-> u[1], xf |-> <<u[2], u[3]>>,
                    y |-> v[1], yf |-> <<v[2], v[3]>>, li |-> i, lj |-> j] :
                     u \in {tx}, v \in {ty} } : TRUE

Pos(x, y) == PosOf(NumOf(x), NumOf(y), 0, 0)

PosX(a) == <<a.x, a.xf[1], a.xf[2]>>
PosY(a) == <<a.y, a.yf[1], a.yf[2]>>

(* impl Add<Pos> for Pos *)
PosAdd(a, b) ==
    CHOOSE r \in { PosOf(Fl(NumAdd(PosX(u), PosX(v))),
                         Fl(NumAdd(PosY(u), PosY(v))),
                         u.li + v.li, u.lj + v.lj) : u \in {a}, v \in {b} } : TRUE

(* impl Mul<isize> for Pos *)
PosMulI(a, k) ==
    CHOOSE r \in { PosOf(Fl(NumMul(PosX(u), k)), Fl(NumMul(PosY(u), k)),
                         u.li * k, u.lj * k) : u \in {a} } : TRUE

(* Pos::round: ((x * 100.).round() as i32, (y * 100.).round() as i32) *)
PosRound(a) ==
    CHOOSE r \in { <<RoundHalfAway(Fl(NumMul(PosX(u), 100))),
                     RoundHalfAway(Fl(NumMul(PosY(u), 100)))>> : u \in {a} } : TRUE

(* impl PartialEq for Pos compares the rounded pairs (PosEq); PosEqNoRound *)
(* is the equality of the two f64 pairs themselves.                        *)
PosEqNoRound(a, b) == PosX(a) = PosX(b) /\ PosY(a) = PosY(b)
PosEq(a, b) == PosRound(a) = PosRound(b)

----------------------------------------------------------------------------
(* Frame.                                                                  *)

FrameCenter(fr) == Pos((fr.w * Unit) \div 2, (fr.h * Unit) \div 2)

FrameIsInside(fr, p) ==
    /\ 0 <= p.x
    /\ (p.x < fr.w * Unit \/ (p.x = fr.w * Unit /\ p.xf = <<0, 0>>))
    /\ 0 <= p.y
    /\ (p.y < fr.h * Unit \/ (p.y = fr.h * Unit /\ p.yf = <<0, 0>>))

----------------------------------------------------------------------------
(* periodic_grid_tiling (src/src/tesselate.rs).                            *)

(* HashSet::contains, through Pos's Hash and PartialEq *)
SetContains(s, p) == LET k == PosRound(p) IN \E q \in s : PosRound(q) = k

(* HashSet::insert: a position equal to a stored one is not stored again *)
SetInsert(s, p) == IF SetContains(s, p) THEN s ELSE s \cup {p}

(* gen(pos): gen_n pairs (representative point, path) for the site *)
Gen(pos, n) == [k \in 1..n |-> [pos |-> pos, path |-> <<pos.x, pos.y, k>>]]

(* the direction list of the inner for loop *)
Dirs == <<<<0, 1>>, <<0, -1>>, <<1, 0>>, <<-1, 0>>>>

(* let p = pos + idir * i + jdir * j *)
Neighbour(pos, d) ==
    LET di == [PosMulI(idir, d[1]) EXCEPT !.li = d[1], !.lj = 0]
        dj == [PosMulI(jdir, d[2]) EXCEPT !.li = 0, !.lj = d[2]]
    IN  PosAdd(PosAdd(pos, di), dj)

(* one pass of the loop body on st, for the neighbour p:                   *)
(* if !set.contains(&p) { set.insert(p); stk.push(p); }                    *)
VisitNoInsert(st, p) ==
    IF ~SetContains(st.set, p)
    THEN [set |-> st.set, stk |-> Append(st.stk, p)]
    ELSE st

Visit(st, p) ==
    IF ~SetContains(st.set, p)
    THEN [set |-> SetInsert(st.set, p), stk |-> Append(st.stk, p)]
    ELSE st

(* Each pass works on the set and stack the pass before left: the sets of  *)
(* one element bind that intermediate value before the next pass reads it. *)
RECURSIVE Expand(_, _, _)
Expand(pos, st, k) ==
    IF k > Len(Dirs) THEN st
    ELSE CHOOSE r \in { Expand(pos, nx, k + 1) :
                          nx \in { Visit(st, p) : p \in {Neighbour(pos, Dirs[k])} } } : TRUE

(* Vec::pop: the element popped, and the stack left *)
Top(s) == s[Len(s)]
PopRest(s) == SubSeq(s, 1, Len(s) - 1)

(* one iteration of the while loop on a site inside the frame *)
PopAnywhere ==
    /\ pc = "loop"
    /\ stk # <<>>
    /\ Len(calls) < MaxPops
    /\ LET pos == Top(stk)
           st  == Expand(pos, [set |-> set, stk |-> PopRest(stk)], 1)
       IN  /\ items' = items \o Gen(pos, gen_n)
           /\ calls' = Append(calls, pos)
           /\ set' = st.set
           /\ stk' = st.stk
    /\ UNCHANGED <<f, idir, jdir, gen_n, pc>>
    /\ UNCHANGED <<mainVars, callVars, runVars>>

PopInside ==
    /\ pc = "loop"
    /\ stk # <<>>
    /\ Len(calls) < MaxPops
    /\ FrameIsInside(f, Top(stk))
    /\ LET pos == Top(stk)
           st  == Expand(pos, [set |-> set, stk |-> PopRest(stk)], 1)
       IN  /\ items' = items \o Gen(pos, gen_n)
           /\ calls' = Append(calls, pos)
           /\ set' = st.set
           /\ stk' = st.stk
    /\ UNCHANGED <<f, idir, jdir, gen_n, pc>>
    /\ UNCHANGED <<mainVars, callVars, runVars>>

(* one iteration of the while loop on a site outside the frame *)
PopOutsideNoPop ==
    /\ pc = "loop"
    /\ stk # <<>>
    /\ ~FrameIsInside(f, Top(stk))
    /\ UNCHANGED <<f, idir, jdir, gen_n, set, stk, items, calls, pc>>
    /\ UNCHANGED <<mainVars, callVars, runVars>>

PopOutside ==
    /\ pc = "loop"
    /\ stk # <<>>
    /\ ~FrameIsInside(f, Top(stk))
    /\ stk' = PopRest(stk)
    /\ UNCHANGED <<f, idir, jdir, gen_n, set, items, calls, pc>>
    /\ UNCHANGED <<mainVars, callVars, runVars>>

(* stk.pop() is None: the loop ends and items is returned *)
Return ==
    /\ pc = "loop"
    /\ stk = <<>>
    /\ pc' = "done"
    /\ UNCHANGED <<f, idir, jdir, gen_n, set, stk, items, calls>>
    /\ UNCHANGED <<mainVars, callVars, runVars>>

(* Inputs of the tiler.                                                    *)
Frames == [w : 1..MaxW, h : 1..MaxH]

Vec(x, y) == Pos(x, y)

BasisVectors ==
    { Vec(Unit, 0), Vec(0, Unit), Vec(Unit, Unit), Vec(Unit, -Unit),
      Vec(Unit \div 2, 0), Vec(-Unit, 0), Vec(0, 0), Vec(Unit \div 256, 0),
      Vec(Unit \div 4, Unit), Vec(Unit \div 4, -Unit) }

(* the state on entry of the while loop *)
TilerStart(fr, i, j, n) ==
    /\ f = fr
    /\ idir = i
    /\ jdir = j
    /\ gen_n = n
    /\ items = <<>>
    /\ calls = <<>>
    /\ set = {FrameCenter(fr)}
    /\ stk = <<FrameCenter(fr)>>
    /\ pc = "loop"

(* main is not running *)
MainIdle ==
    /\ scene = [bg |-> <<>>, items |-> <<>>]
    /\ tiling = <<>>
    /\ stroke = <<>>
    /\ stroke_width = 0
    /\ document = <<>>
    /\ queries = <<>>
    /\ mpc = "idle"

(* no function call is under way *)
CallIdle ==
    /\ call = [fn |-> "none"]
    /\ ret = [done |-> FALSE, v |-> 0, panic |-> FALSE]

(* no run of main is followed *)
RunIdle ==
    /\ rpc = "idle"
    /\ args = [help |-> FALSE, set |-> FALSE, nice |-> FALSE, init |-> "",
               load |-> "", log |-> "", image |-> "",
               width |-> <<>>, height |-> <<>>]
    /\ features = {}
    /\ frame = [w |-> 1, h |-> 1]
    /\ files = <<>>
    /\ ntiles = 0
    /\ colored = 0
    /\ status = -1
    /\ events = <<>>

Init ==
    /\ \E fr \in Frames, i \in BasisVectors, j \in BasisVectors, n \in {0, MaxGen} :
          TilerStart(fr, i, j, n)
    /\ MainIdle
    /\ CallIdle
    /\ RunIdle

Next == PopInside \/ PopOutside \/ Return

Spec == Init /\ [][Next]_vars

----------------------------------------------------------------------------
(* Paint regions and the Scene (src/src/scene.rs).  The coordinates of the *)
(* scene are whole numbers.  The predicates of Disc, HalfPlane, Triangle   *)
(* and Stripe are polynomials of the coordinates, evaluated exactly; the   *)
(* predicate of Spiral (atan2, sqrt, floor) is evaluated in fixed point.   *)

(* impl Sub<Pos> for Pos *)
PosSub(a, b) == Pos(a.x - b.x, a.y - b.y)

(* Pos::dot *)
PosDot(a, b) == a.x * b.x + a.y * b.y

(* Pos::dot_self *)
PosDotSelf(a) == PosDot(a, a)

(* crossprod_sign(a, b, c): the sign of the cross product (a-c) x (b-c) *)
CrossprodSign(a, b, c) ==
    (a.x - c.x) * (b.y - c.y) - (b.x - c.x) * (a.y - c.y) > 0

Clamp(v) == IF v < 0 THEN 0 ELSE IF v > 255 THEN 255 ELSE v

(* Color::variate: each channel moved by a draw of at most dev *)
Variate(shade, d) == [i \in 1..3 |-> Clamp(shade[i] + d[i])]

(* Color::meanpoint: the weighted mean with the theme, weight 0 = no theme *)
Meanpoint(c, theme, weight) ==
    [i \in 1..3 |-> (c[i] + weight * theme[i]) \div (weight + 1)]

(* the draws rng can deliver to one call of ColorItem::sample *)
Draws(ci) == [1..3 -> (-ci.deviation)..ci.deviation]

(* ColorItem::sample, on the draws d *)
ColorItemSample(ci, d) ==
    Meanpoint(Variate(ci.shade, d), ci.theme, ci.weight)

(* impl Contains for Disc: the test of the if *)
DiscContainsClosed(r, p) ==
    PosDotSelf(PosSub(r.center, p)) <= r.radius * r.radius
DiscContains(r, p) ==
    PosDotSelf(PosSub(r.center, p)) < r.radius * r.radius

(* impl Contains for HalfPlane: the test of the if *)
HalfPlaneContains(r, p) ==
    PosDot(PosSub(p, r.limit), PosSub(r.reference, r.limit)) < 0

(* impl Contains for Triangle: the test of the if *)
TriangleContains(r, p) ==
    LET d1 == CrossprodSign(p, r.a, r.b)
        d2 == CrossprodSign(p, r.b, r.c)
        d3 == CrossprodSign(p, r.c, r.a)
        has_pos == d1 \/ d2 \/ d3
        has_neg == ~(d1 /\ d2 /\ d3)
    IN  ~(has_neg /\ has_pos)

(* impl Contains for Stripe: the test of the if *)
StripeContains(r, p) ==
    LET dotprod1 == PosDot(PosSub(p, r.limit), PosSub(r.reference, r.limit))
        dotprod2 == PosDot(PosSub(p, r.reference), PosSub(r.limit, r.reference))
    IN  dotprod1 > 0 /\ dotprod2 > 0

(* The transcendental part of Spiral::contains, in the limbs of the float  *)
(* arithmetic: a number is n * 2^-56, an angle is held as its part of a    *)
(* half turn (theta / pi).  The values are computed to within 2^-44, well  *)
(* below the distance of radius / width to a whole number for the whole    *)
(* coordinates and widths below 2^11 that the scenes of the model hold.    *)

(* atan(2^-i) / pi, i = 0..47, to the nearest 2^-56 *)
AtanTable ==
    << <<16384, 0, 0>>, <<9672, 41907, 779793>>, <<5110, 461675, 902973>>,
       <<2594, 146051, 768820>>, <<1302, 108641, 831798>>, <<651, 719915, 133317>>,
       <<325, 967627, 544844>>, <<162, 1018530, 239749>>, <<81, 510568, 893318>>,
       <<40, 779735, 418134>>, <<20, 389888, 74613>>, <<10, 194946, 610329>>,
       <<5, 97473, 638937>>, <<2, 573024, 885478>>, <<1, 286512, 447954>>,
       <<0, 667544, 224629>>, <<0, 333772, 112396>>, <<0, 166886, 56208>>,
       <<0, 83443, 28105>>, <<0, 41721, 538341>>, <<0, 20860, 793458>>,
       <<0, 10430, 396729>>, <<0, 5215, 198365>>, <<0, 2607, 623470>>,
       <<0, 1303, 836023>>, <<0, 651, 942300>>, <<0, 325, 995438>>,
       <<0, 162, 1022007>>, <<0, 81, 511003>>, <<0, 40, 779790>>,
       <<0, 20, 389895>>, <<0, 10, 194947>>, <<0, 5, 97474>>,
       <<0, 2, 573025>>, <<0, 1, 286512>>, <<0, 0, 667544>>,
       <<0, 0, 333772>>, <<0, 0, 166886>>, <<0, 0, 83443>>,
       <<0, 0, 41722>>, <<0, 0, 20861>>, <<0, 0, 10430>>,
       <<0, 0, 5215>>, <<0, 0, 2608>>, <<0, 0, 1304>>,
       <<0, 0, 652>>, <<0, 0, 326>>, <<0, 0, 163>> >>

(* 1 / prod(sqrt(1 + 4^-i)), i = 0..47: the inverse of the stretch of the  *)
(* rotations of AtanTable                                                  *)
CordicScale == <<39796, 973444, 220762>>

NumSub(s, t) == Norm(<<s[1] - t[1], s[2] - t[2], s[3] - t[3]>>)

(* floor(t / 2^i) *)
RECURSIVE NumShr(_, _)
NumShr(t, i) ==
    IF i >= 20 THEN NumShr(<<t[1] \div Limb, t[1] % Limb, t[2]>>, i - 20)
    ELSE LET q == 2^i
             m == Limb \div q
         IN  <<t[1] \div q, (t[2] \div q) + (t[1] % q) * m,
               (t[3] \div q) + (t[2] % q) * m>>

(* floor(t / w), 0 < w < 2^20: long division, ten bits at a time *)
NumDivI(t, w) ==
    LET Half(rem, limb) ==
            LET c1 == rem * 2^10 + (limb \div 2^10)
                c2 == (c1 % w) * 2^10 + (limb % 2^10)
            IN  <<(c1 \div w) * 2^10 + (c2 \div w), c2 % w>>
        b == Half(t[1] % w, t[2])
        c == Half(b[2], t[3])
    IN  <<t[1] \div w, b[1], c[1]>>

(* one rotation of the vector (v[1], v[2]) by -+atan(2^-(i-1)), towards    *)
(* the x axis; the angle turned through so far is v[3]                     *)
CordicStep(v, i) ==
    LET sx == NumShr(v[1], i - 1)
        sy == NumShr(v[2], i - 1)
        y  == v[2]
    IN  IF y[1] > 0 \/ (y[1] = 0 /\ (y[2] > 0 \/ y[3] > 0))
        THEN <<NumAdd(v[1], sy), NumSub(v[2], sx), NumAdd(v[3], AtanTable[i])>>
        ELSE <<NumSub(v[1], sy), NumAdd(v[2], sx), NumSub(v[3], AtanTable[i])>>

(* the rotations lo..hi in turn, by halves (a rotation acts on the value   *)
(* the ones before it left).  Over the whole table the vector (x, y),      *)
(* x > 0, y > 0, scaled by CordicScale, is turned onto the x axis: v[1]    *)
(* ends as its length and v[3] as its angle.                               *)
RECURSIVE Cordic(_, _, _)
Cordic(v, lo, hi) ==
    IF lo = hi THEN CordicStep(v, lo)
    ELSE LET mid == (lo + hi) \div 2
         IN  CHOOSE r \in { Cordic(u, mid + 1, hi) : u \in { Cordic(v, lo, mid) } } : TRUE

(* (di.powi(2) + dj.powi(2)).sqrt() and di.atan2(dj) / PI.  On the axes    *)
(* they are the exact values: the length is |di| or |dj| and the angle is  *)
(* 0, pi, pi/2 or -pi/2.                                                   *)
PolarOf(di, dj) ==
    IF di = 0
    THEN [radius |-> NumOf(Abs(dj) * Unit),
          theta  |-> IF dj >= 0 THEN NumOf(0) ELSE NumOf(Unit)]
    ELSE IF dj = 0
    THEN [radius |-> NumOf(Abs(di) * Unit),
          theta  |-> IF di > 0 THEN NumOf(Unit \div 2) ELSE NumOf(-(Unit \div 2))]
    ELSE LET v == Cordic(<<NumMul(CordicScale, Abs(dj)),
                           NumMul(CordicScale, Abs(di)), NumOf(0)>>,
                         1, Len(AtanTable))
             h == IF dj > 0 THEN v[3] ELSE NumSub(NumOf(Unit), v[3])
         IN  [radius |-> v[1],
              theta  |-> IF di > 0 THEN h ELSE NumMul(h, -1)]

(* PolarOf on the offsets near the center, held as a table of its values   *)
(* (@@ with the empty function leaves the function as it is and makes the *)
(* table), and Polar, which looks a near offset up.                        *)
NearOffsets == (-8 .. 8) \X (-8 .. 8)

PolarNear == [d \in NearOffsets |-> PolarOf(d[1], d[2])] @@ <<>>

Polar(di, dj) ==
    IF <<di, dj>> \in NearOffsets THEN PolarNear[<<di, dj>>] ELSE PolarOf(di, dj)

(* impl Contains for Spiral: the test of the if.  radius / self.width is   *)
(* sqrt(di^2 + dj^2) / width + theta / pi.  The width is positive.  An i32 *)
(* below 0 has remainder 0 or -1 by 2.                                     *)
SpiralContains(r, p) ==
    LET d     == PosSub(r.center, p)
        polar == Polar(d.x, d.y)
        ratio == NumAdd(NumDivI(polar.radius, r.width), polar.theta)
    IN  (ratio[1] \div Unit) % 2 = 0

(* dyn Contains: whether contains(p, rng) is Some *)
Contains(r, p) ==
    CASE r.kind = "Disc"      -> DiscContains(r, p)
      [] r.kind = "HalfPlane" -> HalfPlaneContains(r, p)
      [] r.kind = "Triangle"  -> TriangleContains(r, p)
      [] r.kind = "Spiral"    -> SpiralContains(r, p)
      [] r.kind = "Stripe"    -> StripeContains(r, p)

(* Scene::color, the for loop from index k on: the index of the region     *)
(* whose sample is returned, 0 when the loop falls through to self.bg      *)
RECURSIVE ColorScanLast(_, _, _)
ColorScanLast(its, p, k) ==
    IF k > Len(its) THEN 0
    ELSE LET later == ColorScanLast(its, p, k + 1)
         IN  IF later # 0 THEN later
             ELSE IF Contains(its[k], p) THEN k ELSE 0

RECURSIVE ColorScan(_, _, _)
ColorScan(its, p, k) ==
    IF k > Len(its) THEN 0
    ELSE IF Contains(its[k], p) THEN k
    ELSE ColorScan(its, p, k + 1)

(* the ColorItem Scene::color samples for the scan's result *)
SampledItem(sc, hit) == IF hit = 0 THEN sc.bg ELSE sc.items[hit].color

(* the ColorItems a region's contains(p, rng) samples: self.color in the    *)
(* Some branch, none in the None branch                                    *)
ContainsSamplesAlways(r, p) == <<r.color>>

ContainsSamples(r, p) == IF Contains(r, p) THEN <<r.color>> ELSE <<>>

(* the regions the for loop calls contains on, in order: up to the one     *)
(* that returns, all of them when the loop falls through                   *)
TestedRegions(its, hit) ==
    IF hit = 0 THEN [k \in 1..Len(its) |-> k] ELSE [k \in 1..hit |-> k]

RECURSIVE SamplesOver(_, _, _)
SamplesOver(its, p, ts) ==
    IF ts = <<>> THEN <<>>
    ELSE ContainsSamples(its[Head(ts)], p) \o SamplesOver(its, p, Tail(ts))

(* every ColorItem sampled during one call of Scene::color, in order *)
SceneColorSamples(sc, p, hit) ==
    SamplesOver(sc.items, p, TestedRegions(sc.items, hit))
        \o (IF hit = 0 THEN <<sc.bg>> ELSE <<>>)

----------------------------------------------------------------------------
(* The generation pass of main (src/src/main.rs).                          *)

(* the point of the pair that main hands to scene.color *)
QueryPointFirst(tl, k) == tl[1].pos
QueryPoint(tl, k) == tl[k].pos

(* stroke_like_fill = stroke_width < 0.0001, stroke_width in 1/100000 *)
StrokeLikeFill(sw) == sw < 10

(* stroke_width.max(0.1) *)
StrokeWidthMax(sw) == IF sw > 10000 THEN sw ELSE 10000

(* one iteration of the for loop over cfg.make_tiling(&mut rng) *)
ColorTile ==
    /\ mpc = "tiling"
    /\ Len(document) < Len(tiling)
    /\ LET k    == Len(document) + 1
           pos  == QueryPoint(tiling, k)
           hit  == ColorScan(scene.items, pos, 1)
           ci   == SampledItem(scene, hit)
       IN  \E d \in Draws(ci) :
             LET fill == ColorItemSample(ci, d)
             IN  /\ queries' = Append(queries,
                        [p |-> pos, hit |-> hit,
                         tested |-> TestedRegions(scene.items, hit),
                         sampled |-> SceneColorSamples(scene, pos, hit),
                         ret |-> fill])
                 /\ document' = Append(document,
                        [path |-> tiling[k].path,
                         fill |-> fill,
                         stroke |-> IF StrokeLikeFill(stroke_width)
                                    THEN fill ELSE stroke,
                         stroke_width |-> StrokeWidthMax(stroke_width)])
    /\ UNCHANGED <<scene, tiling, stroke, stroke_width, mpc>>
    /\ UNCHANGED <<tilerVars, callVars, runVars>>

(* the tiling is exhausted: the loop ends *)
EndTiling ==
    /\ mpc = "tiling"
    /\ Len(document) = Len(tiling)
    /\ mpc' = "generated"
    /\ UNCHANGED <<scene, tiling, stroke, stroke_width, document, queries>>
    /\ UNCHANGED <<tilerVars, callVars, runVars>>

(* Inputs of main.                                                         *)
MaxRegions == 2
MaxTiles == 2

Black == <<0, 0, 0>>

(* SceneCfg::choose_color: chosen is what self.theme.choose(rng) returns,  *)
(* <<>> for None and <<t>> for Some(t)                                     *)
ColorItemOf(shade, dev, w, chosen) ==
    [shade |-> shade, deviation |-> dev,
     theme |-> IF chosen = <<>> THEN Black ELSE chosen[1], weight |-> w]

Backgrounds == { ColorItemOf(<<200, 200, 200>>, 0, 0, <<>>),
                 ColorItemOf(<<255, 100, 0>>, 1, 1, << <<0, 255, 30>> >>) }

RegionPool ==
    { [kind |-> "Disc", center |-> Pos(0, 0), radius |-> 5,
       color |-> ColorItemOf(<<10, 20, 30>>, 0, 0, <<>>)],
      [kind |-> "HalfPlane", limit |-> Pos(4, 0), reference |-> Pos(0, 0),
       color |-> ColorItemOf(<<250, 5, 100>>, 0, 3, << <<0, 255, 30>> >>)],
      [kind |-> "Triangle", a |-> Pos(0, 0), b |-> Pos(0, 10), c |-> Pos(10, 0),
       color |-> ColorItemOf(<<70, 80, 90>>, 0, 0, <<>>)],
      [kind |-> "Spiral", center |-> Pos(0, 0), width |-> 2,
       color |-> ColorItemOf(<<40, 50, 60>>, 0, 1, <<>>)],
      [kind |-> "Stripe", limit |-> Pos(2, 0), reference |-> Pos(6, 0),
       color |-> ColorItemOf(<<100, 110, 120>>, 0, 2, <<>>)] }

TilePoints == { Pos(3, 3), Pos(8, 8), Pos(-7, 1) }

SeqsUpTo(S, n) == UNION { [1..m -> S] : m \in 0..n }

Tilings ==
    { [k \in 1..Len(ps) |-> [pos |-> ps[k], path |-> k]] :
        ps \in SeqsUpTo(TilePoints, MaxTiles) }

(* the items of a scene: up to MaxRegions regions of the pool, each once *)
ItemLists ==
    { its \in SeqsUpTo(RegionPool, MaxRegions) :
        \A i, j \in 1..Len(its) : its[i] = its[j] => i = j }

StrokeWidths == { 0, 50000 }

(* the tiler is not running *)
TilerIdle ==
    /\ f = [w |-> 1, h |-> 1]
    /\ idir = Pos(0, 0)
    /\ jdir = Pos(0, 0)
    /\ gen_n = 0
    /\ items = <<>>
    /\ calls = <<>>
    /\ set = {}
    /\ stk = <<>>
    /\ pc = "idle"

(* main on entry of the generation loop *)
MainInit ==
    /\ \E b \in Backgrounds, its \in ItemLists :
          scene = [bg |-> b, items |-> its]
    /\ tiling \in Tilings
    /\ stroke = <<1, 2, 3>>
    /\ stroke_width \in StrokeWidths
    /\ document = <<>>
    /\ queries = <<>>
    /\ mpc = "tiling"
    /\ TilerIdle
    /\ CallIdle
    /\ RunIdle

MainNext == ColorTile \/ EndTiling

MainSpec == MainInit /\ [][MainNext]_vars

----------------------------------------------------------------------------
(* Exact trigonometry.  The recipes take the rotation in whole degrees;    *)
(* for the multiples of 15 degrees every sine and cosine lies in the       *)
(* field Q(sqrt 2, sqrt 3).  A number of the field is                      *)
(*   (n[1] + n[2]*sqrt 2 + n[3]*sqrt 3 + n[4]*sqrt 6) / d,  d > 0,         *)
(* kept in lowest terms.                                                   *)

RECURSIVE GcdN(_, _)
GcdN(a, b) == IF b = 0 THEN a ELSE GcdN(b, a % b)

QNorm(n, d) ==
    LET g == GcdN(GcdN(GcdN(GcdN(d, Abs(n[1])), Abs(n[2])), Abs(n[3])), Abs(n[4]))
    IN  [n |-> [i \in 1..4 |-> n[i] \div g], d |-> d \div g]

QInt(k) == [n |-> <<k, 0, 0, 0>>, d |-> 1]

QAdd(a, b) ==
    QNorm([i \in 1..4 |-> a.n[i] * b.d + b.n[i] * a.d], a.d * b.d)

QNeg(a) == [n |-> [i \in 1..4 |-> -a.n[i]], d |-> a.d]

QSub(a, b) == QAdd(a, QNeg(b))

QMul(a, b) ==
    QNorm(<< a.n[1]*b.n[1] + 2*a.n[2]*b.n[2] + 3*a.n[3]*b.n[3] + 6*a.n[4]*b.n[4],
             a.n[1]*b.n[2] + a.n[2]*b.n[1] + 3*(a.n[3]*b.n[4] + a.n[4]*b.n[3]),
             a.n[1]*b.n[3] + a.n[3]*b.n[1] + 2*(a.n[2]*b.n[4] + a.n[4]*b.n[2]),
             a.n[1]*b.n[4] + a.n[4]*b.n[1] + a.n[2]*b.n[3] + a.n[3]*b.n[2] >>,
          a.d * b.d)

QIsZero(a) == a.n = <<0, 0, 0, 0>>

(* cos of 0, 15, ..., 90 degrees *)
CosTable ==
    << [n |-> <<1, 0, 0, 0>>, d |-> 1],
       [n |-> <<0, 1, 0, 1>>, d |-> 4],
       [n |-> <<0, 0, 1, 0>>, d |-> 2],
       [n |-> <<0, 1, 0, 0>>, d |-> 2],
       [n |-> <<1, 0, 0, 0>>, d |-> 2],
       [n |-> <<0, -1, 0, 1>>, d |-> 4],
       [n |-> <<0, 0, 0, 0>>, d |-> 1] >>

(* radians(a).cos(), a in whole degrees, a multiple of 15 *)
QCos(a) ==
    LET m == a % 360
        h == IF m > 180 THEN 360 - m ELSE m
    IN  IF h > 90 THEN QNeg(CosTable[(180 - h) \div 15 + 1])
        ELSE CosTable[h \div 15 + 1]

(* radians(a).sin() *)
QSin(a) == QCos(a - 90)

(* 2_f64.sqrt() and the reciprocals the recipes divide by *)
QSqrt2Inv == [n |-> <<0, 1, 0, 0>>, d |-> 2]
QCos30Inv == [n |-> <<0, 0, 2, 0>>, d |-> 3]
QTan30 == [n |-> <<0, 0, 1, 0>>, d |-> 3]

(* polar: Pos(r * a.cos(), r * a.sin()) *)
QPolar(a, r) == [x |-> QMul(r, QCos(a)), y |-> QMul(r, QSin(a))]

QPosAdd(p, q) == [x |-> QAdd(p.x, q.x), y |-> QAdd(p.y, q.y)]

----------------------------------------------------------------------------
(* The tiling recipes (src/src/tesselate.rs): the idir and jdir each one   *)
(* computes and hands to periodic_grid_tiling.                             *)

TileHexagonsBasis(size, rot) ==
    LET r == QMul(QMul(QInt(size), QInt(2)), QCos(30))
    IN  [idir |-> QPolar(rot - 30, r), jdir |-> QPolar(rot + 30, r)]

TileTrianglesBasis(size, rot) ==
    LET r == QMul(QMul(QInt(size), QInt(2)), QCos(30))
    IN  [idir |-> QPolar(rot - 30, r), jdir |-> QPolar(rot + 30, r)]

TileHybridHexagonsTrianglesBasis(size, rot) ==
    LET r == QMul(QInt(size), QInt(2))
    IN  [idir |-> QPolar(rot, r), jdir |-> QPolar(rot + 60, r)]

TileHybridSquaresTrianglesBasis(size, rot) ==
    LET a == QMul(QInt(size), QSqrt2Inv)
        b == QMul(a, QTan30)
        c == QMul(a, QCos30Inv)
        l == QAdd(QAdd(c, QMul(a, QInt(2))), QMul(QInt(2), b))
    IN  [idir |-> QPosAdd(QPolar(rot, l), QPolar(rot + 60, l)),
         jdir |-> QPosAdd(QPolar(rot, l), QPolar(rot - 60, l))]

TileRhombusBasis(ldiag, sdiag, rot) ==
    [idir |-> QPosAdd(QPolar(rot, QInt(ldiag)), QPolar(rot + 90, QInt(sdiag))),
     jdir |-> QPosAdd(QPolar(rot, QInt(-ldiag)), QPolar(rot + 90, QInt(sdiag)))]

PentagonsType1Basis(size, rot) ==
    [idir |-> QPolar(rot, QInt(size)), jdir |-> QPolar(rot + 180, QInt(size))]

----------------------------------------------------------------------------
(* random_delaunay (src/src/tesselate.rs), from the triangulation on.      *)

(* impl Mul<f64> for Pos, the factor given in 1/100: the product is in     *)
(* 1/100 of the unit of the operand                                        *)
PosMulCenti(a, c) == Pos(a.x * c, a.y * c)

(* (a + b + c) * 0.33 *)
DelaunayPoint(t) == PosMulCenti(PosAdd(PosAdd(t[1], t[2]), t[3]), 33)

(* del::triangulate belongs to the crate delaunator.  It returns None for  *)
(* fewer than three points and for points that all lie on one line, and    *)
(* Some of a triangulation otherwise: its field triangles is a flat list   *)
(* of indices into the points, three per triangle.  An outcome is <<>> for *)
(* None and <<triangles>> for Some.                                        *)
Collinear(pts) ==
    \A i, j, k \in 1..Len(pts) :
        (pts[j].x - pts[i].x) * (pts[k].y - pts[i].y)
            = (pts[k].x - pts[i].x) * (pts[j].y - pts[i].y)

(* the index triples (from 0) of the non-degenerate triangles over pts *)
IndexTriples(pts) ==
    { t \in [1..3 -> 0..(Len(pts) - 1)] :
        /\ t[1] < t[2] /\ t[2] < t[3]
        /\ ~Collinear(<<pts[t[1] + 1], pts[t[2] + 1], pts[t[3] + 1]>>) }

RECURSIVE Flatten(_)
Flatten(ts) == IF ts = <<>> THEN <<>> ELSE Head(ts) \o Flatten(Tail(ts))

(* fast_triangulate: pts[i] for every index of the triangulation, then     *)
(* the chunks of three; unwrap panics on None                              *)
FastTriangulate(pts, del) ==
    LET result == [n \in 1..Len(del[1]) |-> pts[del[1][n] + 1]]
    IN  [i \in 1..(Len(result) \div 3) |->
            <<result[3 * i - 2], result[3 * i - 1], result[3 * i]>>]

(* the map over the triangulation *)
RandomDelaunay(tr) ==
    [k \in 1..Len(tr) |-> [pos |-> DelaunayPoint(tr[k]), path |-> tr[k]]]

----------------------------------------------------------------------------
(* Calls of single functions.                                              *)

Return1(v) ==
    /\ ret' = [done |-> TRUE, v |-> v, panic |-> FALSE]
    /\ UNCHANGED <<call, tilerVars, mainVars, runVars>>

(* the call does not return: the thread panics *)
Panic1 ==
    /\ ret' = [done |-> TRUE, v |-> <<>>, panic |-> TRUE]
    /\ UNCHANGED <<call, tilerVars, mainVars, runVars>>

CallDiscContains ==
    /\ call.fn = "Disc::contains" /\ ~ret.done
    /\ Return1(DiscContains(call.region, call.p))

CallTriangleContains ==
    /\ call.fn = "Triangle::contains" /\ ~ret.done
    /\ Return1(TriangleContains(call.region, call.p))

CallRandomDelaunay ==
    /\ call.fn = "random_delaunay" /\ ~ret.done
    /\ IF call.del = <<>>
       THEN Panic1
       ELSE Return1(RandomDelaunay(FastTriangulate(call.pts, call.del)))
CallTileHexagons ==
    /\ call.fn = "tile_hexagons" /\ ~ret.done
    /\ Return1(TileHexagonsBasis(call.size, call.rot))

CallTileTriangles ==
    /\ call.fn = "tile_triangles" /\ ~ret.done
    /\ Return1(TileTrianglesBasis(call.size, call.rot))

CallTileHybridHexagonsTriangles ==
    /\ call.fn = "tile_hybrid_hexagons_triangles" /\ ~ret.done
    /\ Return1(TileHybridHexagonsTrianglesBasis(call.size, call.rot))

CallTileHybridSquaresTriangles ==
    /\ call.fn = "tile_hybrid_squares_triangles" /\ ~ret.done
    /\ Return1(TileHybridSquaresTrianglesBasis(call.size, call.rot))

CallTileRhombus ==
    /\ call.fn = "tile_rhombus" /\ ~ret.done
    /\ Return1(TileRhombusBasis(call.ldiag, call.sdiag, call.rot))

CallPentagonsType1 ==
    /\ call.fn = "pentagons_type1" /\ ~ret.done
    /\ Return1(PentagonsType1Basis(call.size, call.rot))

(* Inputs of the calls.                                                    *)
MaxRadius == 5
MaxSize == 2
MaxTriangles == 2
MaxPoints == 3

(* Disc: coordinates in 1/10 *)
DiscCoords == { 10 * c : c \in (-MaxRadius)..MaxRadius } \cup { 39 }

DiscCalls ==
    { [fn |-> "Disc::contains",
       region |-> [kind |-> "Disc", center |-> c, radius |-> 10 * r,
                   color |-> ColorItemOf(<<10, 20, 30>>, 0, 0, <<>>)],
       p |-> Pos(x, y)] :
        c \in { Pos(0, 0), Pos(10, -10) }, r \in 0..MaxRadius,
        x \in DiscCoords, y \in DiscCoords }

TriangleVertices == { Pos(0, 0), Pos(10, 0), Pos(0, 10), Pos(10, 10) }

TriangleCoords == { 0, 3, 5, 8, 10, 12 }

TriangleCalls ==
    { [fn |-> "Triangle::contains",
       region |-> [kind |-> "Triangle", a |-> a, b |-> b, c |-> c,
                   color |-> ColorItemOf(<<70, 80, 90>>, 0, 0, <<>>)],
       p |-> Pos(x, y)] :
        a \in TriangleVertices, b \in TriangleVertices, c \in TriangleVertices,
        x \in TriangleCoords, y \in TriangleCoords }

(* random_delaunay: the n positions Pos::random draws, n up to MaxPoints,   *)
(* and the outcome of del::triangulate on them                             *)
PointPool == { Pos(0, 0), Pos(6, 0), Pos(0, 6), Pos(3, 0), Pos(2, 7) }

DelOutcomes(pts) ==
    IF Len(pts) < 3 \/ Collinear(pts) THEN { <<>> }
    ELSE { <<Flatten(ts)>> :
             ts \in { u \in SeqsUpTo(IndexTriples(pts), MaxTriangles) : u # <<>> } }

DelaunayCalls ==
    { [fn |-> "random_delaunay", n |-> Len(c[1]), pts |-> c[1], del |-> c[2]] :
        c \in UNION { { <<ps, d>> : d \in DelOutcomes(ps) } :
                        ps \in SeqsUpTo(PointPool, MaxPoints) } }

Rots == { 15 * k : k \in 0..23 }

RecipeCalls ==
    { [fn |-> n, size |-> s, rot |-> r] :
        n \in { "tile_hexagons", "tile_triangles", "tile_hybrid_hexagons_triangles",
                "tile_hybrid_squares_triangles", "pentagons_type1" },
        s \in 1..MaxSize, r \in Rots }
    \cup
    { [fn |-> "tile_rhombus", ldiag |-> l, sdiag |-> s, rot |-> r] :
        l \in 1..MaxSize, s \in 1..MaxSize, r \in Rots }

CallInit ==
    /\ call \in DiscCalls \cup TriangleCalls \cup DelaunayCalls \cup RecipeCalls
    /\ ret = [done |-> FALSE, v |-> 0, panic |-> FALSE]
    /\ TilerIdle
    /\ MainIdle
    /\ RunIdle

CallNext ==
    \/ CallDiscContains
    \/ CallTriangleContains
    \/ CallRandomDelaunay
    \/ CallTileHexagons
    \/ CallTileTriangles
    \/ CallTileHybridHexagonsTriangles
    \/ CallTileHybridSquaresTriangles
    \/ CallTileRhombus
    \/ CallPentagonsType1

CallSpec == CallInit /\ [][CallNext]_vars

----------------------------------------------------------------------------
(* A run of main (src/src/main.rs), from the parsed command line to the    *)
(* exit.                                                                   *)

(* the command lines: "" is a path not given; a size is <<>> when not      *)
(* given (None) and <<n>> when given (Some(n))                             *)
InitPaths == { "", "cfg", "out.svg" }
LoadPaths == { "", "scene.log" }
LogPaths == { "", "scene.log", "out.svg" }
ImagePaths == { "", "out.svg" }
Overrides == { <<>>, <<0>>, <<7>> }

(* args.verbose: what the run reports on standard output (the letters P,   *)
(* D, I, W of --verbose); nothing by default                               *)
Quiet == [prog |-> FALSE, details |-> FALSE, info |-> FALSE, warn |-> FALSE]

Verbosities ==
    { Quiet,
      [Quiet EXCEPT !.warn = TRUE],
      [prog |-> TRUE, details |-> TRUE, info |-> TRUE, warn |-> TRUE] }

(* the arguments of the command line --config cfg *)
PlainArgs ==
    [help |-> FALSE, set |-> FALSE, nice |-> FALSE, verbose |-> Quiet,
     time |-> <<>>, log |-> "", load |-> "", image |-> "", config |-> "cfg",
     init |-> "", width |-> <<>>, height |-> <<>>]

(* the number of options a command line holds besides --config *)
MaxOptions == 3

OptionsOf(a) == { o \in DOMAIN a : a[o] # PlainArgs[o] }

(* struct Args, as read from a command line of MaxOptions options at most *)
ArgSets ==
    { a \in [help : BOOLEAN, set : BOOLEAN, nice : BOOLEAN,
             verbose : Verbosities, time : { <<>>, <<1200>> }, log : LogPaths,
             load : LoadPaths, image : ImagePaths, config : { "cfg" },
             init : InitPaths, width : Overrides, height : Overrides] :
        Cardinality(OptionsOf(a)) <= MaxOptions }

(* the exit status of a process whose main thread panics *)
PanicStatus == 101

(* the frames a configuration or a loaded Logger can hold *)
RunFrames == { [w |-> 1, h |-> 1], [w |-> 2, h |-> 1] }

(* the cargo features a build can enable *)
Features == SUBSET { "nice", "set-wallpaper" }

(* let tmp_dest = dest.clone() + ".tmp" *)
TmpDest(dest) == dest \o ".tmp"

Paths == { "cfg", "scene.log", "out.svg", TmpDest("out.svg") }

(* one operation on a file or on standard output *)
Io(op, path) == <<[op |-> op, path |-> path]>>

(* println!, print!: one write to standard output *)
Println == Io("print", "stdout")

(* if flag { println!(..) } *)
Msg(flag) == IF flag THEN Println ELSE <<>>

(* the operations of a step up to a print that panics (println! panics     *)
(* when standard output cannot be written), for each print of ops          *)
PanicsOf(ops) ==
    { SubSeq(ops, 1, k) : k \in { i \in 1..Len(ops) : ops[i].op = "print" } }

(* the step taken, and the frame and the files it leaves *)
Event(step, fr, io, fs) == [step |-> step, frame |-> fr, io |-> io, files |-> fs]

(* a step of main: it did the operations io, leaves the frame fr and the   *)
(* files fs, and goes on at next; st is the exit status when next is exit  *)
RunStep(step, fr, io, fs, next, st) ==
    /\ frame' = fr
    /\ files' = fs
    /\ events' = Append(events, Event(step, fr, io, fs))
    /\ rpc' = next
    /\ status' = st

(* a step of main that ends in the panic of one of the prints of ops *)
PanicStep(step, fr, ops, fs) ==
    \E io \in PanicsOf(ops) : RunStep(step, fr, io, fs, "exit", PanicStatus)

(* lines 16-21: if args.help { print_help(); exit(0); }; print_help (lines *)
(* 321-323) is a print!                                                    *)
RunHelp ==
    /\ rpc = "help"
    /\ IF args.help
       THEN \/ RunStep("help", frame, Println, files, "exit", 0)
            \/ PanicStep("help", frame, Println, files)
       ELSE RunStep("help", frame, <<>>, files, "nice", status)
    /\ UNCHANGED <<args, features, ntiles, colored>>
    /\ UNCHANGED <<tilerVars, mainVars, callVars>>

(* lines 23-33: if args.nice { ... }.  With the feature nice it is         *)
(* reduce_priority (lines 340-366): priority().unwrap() panics when the    *)
(* priority cannot be read (line 342, and line 363 after the first print); *)
(* it reports the priority under info, exits with 1 after a warning when   *)
(* no lower priority is available or the priority cannot be set, and       *)
(* reports the new priority under info.  Without the feature the block is  *)
(* a warning and exit(1).                                                  *)
RunNice ==
    /\ rpc = "nice"
    /\ LET v == args.verbose
       IN  IF ~args.nice
           THEN RunStep("nice", frame, <<>>, files, "init", status)
           ELSE IF "nice" \in features
           THEN \/ RunStep("nice", frame, <<>>, files, "exit", PanicStatus)
                \/ RunStep("nice", frame, Msg(v.info) \o Msg(v.warn), files, "exit", 1)
                \/ PanicStep("nice", frame, Msg(v.info) \o Msg(v.warn), files)
                \/ RunStep("nice", frame, Msg(v.info) \o Msg(v.info), files,
                           "init", status)
                \/ PanicStep("nice", frame, Msg(v.info) \o Msg(v.info), files)
           ELSE \/ RunStep("nice", frame, Msg(v.warn), files, "exit", 1)
                \/ PanicStep("nice", frame, Msg(v.warn), files)
    /\ UNCHANGED <<args, features, ntiles, colored>>
    /\ UNCHANGED <<tilerVars, mainVars, callVars>>

(* lines 35-41: if args.init != "" { make_config_file(..); exit(0); }      *)
(* after the message under prog; make_config_file (lines 325-337) creates  *)
(* the file, which empties it, and writes the sample configuration; when   *)
(* either fails it prints the error and exits with 1                       *)
RunInitFile ==
    /\ rpc = "init"
    /\ IF args.init = ""
       THEN RunStep("init", frame, <<>>, files, "config", status)
       ELSE LET start == Msg(args.verbose.prog)
                wr    == start \o Io("write", args.init)
            IN  \/ RunStep("init", frame, wr,
                           [files EXCEPT ![args.init] = "config"], "exit", 0)
                \/ \E fs \in { files, [files EXCEPT ![args.init] = "partial"] },
                      st \in { 1, PanicStatus } :
                        RunStep("init", frame, wr \o Println, fs, "exit", st)
                \/ PanicStep("init", frame, start, files)
    /\ UNCHANGED <<args, features, ntiles, colored>>
    /\ UNCHANGED <<tilerVars, mainVars, callVars>>

(* lines 43-81: the time is read (the current time is reported under info  *)
(* when --time is not given), the configuration file is read (a failed     *)
(* read is warned of and the default settings are used) and a              *)
(* configuration is picked; each stage is announced under prog             *)
RunReadConfig ==
    /\ rpc = "config"
    /\ \E ok \in BOOLEAN :
          LET v   == args.verbose
              ops == Msg(v.prog) \o Msg(v.info /\ args.time = <<>>)
                       \o Msg(v.prog) \o Msg(v.prog)
                       \o Io("read", args.config)
                       \o Msg(v.warn /\ ~ok) \o Msg(v.prog)
          IN  \/ \E fr \in RunFrames :
                    RunStep("config", fr, ops, files, "width", status)
              \/ PanicStep("config", frame, ops, files)
    /\ UNCHANGED <<args, features, ntiles, colored>>
    /\ UNCHANGED <<tilerVars, mainVars, callVars>>

(* lines 83-85: if let Some(w) = args.width { cfg.frame.w = w; } *)
RunWidth ==
    /\ rpc = "width"
    /\ RunStep("width",
               IF args.width # <<>>
               THEN [frame EXCEPT !.w = args.width[1]] ELSE frame,
               <<>>, files, "height", status)
    /\ UNCHANGED <<args, features, ntiles, colored>>
    /\ UNCHANGED <<tilerVars, mainVars, callVars>>

(* lines 86-92: if let Some(h) = args.height { cfg.frame.h = h; }, and the *)
(* message under prog that the scene is about to be built                  *)
RunHeight ==
    /\ rpc = "height"
    /\ LET fr == IF args.height # <<>>
                 THEN [frame EXCEPT !.h = args.height[1]] ELSE frame
       IN  \/ RunStep("height", fr, Msg(args.verbose.prog), files, "scene", status)
           \/ PanicStep("height", fr, Msg(args.verbose.prog), files)
    /\ UNCHANGED <<args, features, ntiles, colored>>
    /\ UNCHANGED <<tilerVars, mainVars, callVars>>

(* lines 93-96: Scene::new, stroke, stroke_width, stroke_like_fill *)
RunSceneReading ==
    /\ rpc = "scene"
    /\ RunStep("scene", frame, Io("read", args.config), files, "load", status)
    /\ UNCHANGED <<args, features, ntiles, colored>>
    /\ UNCHANGED <<tilerVars, mainVars, callVars>>

RunScene ==
    /\ rpc = "scene"
    /\ RunStep("scene", frame, <<>>, files, "load", status)
    /\ UNCHANGED <<args, features, ntiles, colored>>
    /\ UNCHANGED <<tilerVars, mainVars, callVars>>

(* lines 98-104: cfg.frame after the --load block, lf the frame of the     *)
(* loaded Logger                                                           *)
LoadedFrameAlways(fr, lf, load) == lf

LoadedFrame(fr, lf, load) == IF load # "" THEN lf ELSE fr

(* lines 98-104: if args.load != "" { ... cfg.frame = frame; } *)
RunLoad ==
    /\ rpc = "load"
    /\ \E lf \in RunFrames :
          RunStep("load", LoadedFrame(frame, lf, args.load),
                  IF args.load # "" THEN Io("read", args.load) ELSE <<>>,
                  files, "log", status)
    /\ UNCHANGED <<args, features, ntiles, colored>>
    /\ UNCHANGED <<tilerVars, mainVars, callVars>>

(* lines 106-122: if args.log != "" { logger.save(&args.log)... }; a       *)
(* failed save is warned of and the run goes on; then the message under    *)
(* prog that the tiling is about to be made                                *)
RunLog ==
    /\ rpc = "log"
    /\ \E ok \in BOOLEAN :
          LET v   == args.verbose
              fs  == IF args.log # "" /\ ok
                     THEN [files EXCEPT ![args.log] = "log"] ELSE files
              ops == IF args.log # ""
                     THEN Io("write", args.log) \o Msg(v.warn /\ ~ok) \o Msg(v.prog)
                     ELSE Msg(v.prog)
          IN  \/ RunStep("log", frame, ops, fs, "document", status)
              \/ PanicStep("log", frame, ops, fs)
    /\ UNCHANGED <<args, features, ntiles, colored>>
    /\ UNCHANGED <<tilerVars, mainVars, callVars>>

(* lines 123-124: Document::new(cfg.frame) and cfg.make_tiling(&mut rng);  *)
(* make_tiling panics when the tiling is random_delaunay and the points    *)
(* have no triangulation, and the process ends with the status of a panic  *)
RunMakeTiling ==
    /\ rpc = "document"
    /\ \/ /\ ntiles' \in { 0, MaxTiles }
          /\ RunStep("tiling", frame, <<>>, files, "loop", status)
       \/ /\ ntiles' = ntiles
          /\ RunStep("tiling_panic", frame, <<>>, files, "exit", PanicStatus)
    /\ UNCHANGED <<args, features, colored>>
    /\ UNCHANGED <<tilerVars, mainVars, callVars>>

(* lines 125-130: one iteration of the generation loop *)
RunColor ==
    /\ rpc = "loop"
    /\ colored < ntiles
    /\ colored' = colored + 1
    /\ RunStep("color", frame, <<>>, files, rpc, status)
    /\ UNCHANGED <<args, features, ntiles>>
    /\ UNCHANGED <<tilerVars, mainVars, callVars>>

(* lines 133-138: if dest == "" { if verbose.prog { println!(..) }         *)
(* exit(1) }                                                               *)
RunNoDest ==
    /\ rpc = "loop"
    /\ colored = ntiles
    /\ args.image = ""
    /\ \/ RunStep("no_dest", frame, Msg(args.verbose.prog), files, "exit", 1)
       \/ PanicStep("no_dest", frame, Msg(args.verbose.prog), files)
    /\ UNCHANGED <<args, features, ntiles, colored>>
    /\ UNCHANGED <<tilerVars, mainVars, callVars>>

(* lines 140-150: the message under prog, then document.save(&tmp_dest);   *)
(* a failed save is warned of and is exit(1); it may leave a partial file  *)
RunSaveDirect ==
    /\ rpc = "loop"
    /\ colored = ntiles
    /\ args.image # ""
    /\ RunStep("save", frame, Msg(args.verbose.prog) \o Io("write", args.image),
               [files EXCEPT ![args.image] = "image"], "exit", 0)
    /\ UNCHANGED <<args, features, ntiles, colored>>
    /\ UNCHANGED <<tilerVars, mainVars, callVars>>

RunSave ==
    /\ rpc = "loop"
    /\ colored = ntiles
    /\ args.image # ""
    /\ LET v     == args.verbose
           tmp   == TmpDest(args.image)
           start == Msg(v.prog)
           wr    == start \o Io("write", tmp)
       IN  \/ RunStep("save", frame, wr, [files EXCEPT ![tmp] = "image"],
                      "rename", status)
           \/ \E fs \in { files, [files EXCEPT ![tmp] = "partial"] } :
                 \/ RunStep("save_failed", frame, wr \o Msg(v.warn), fs, "exit", 1)
                 \/ /\ v.warn
                    /\ RunStep("save_failed", frame, wr \o Println, fs,
                               "exit", PanicStatus)
           \/ PanicStep("save_failed", frame, start, files)
    /\ UNCHANGED <<args, features, ntiles, colored>>
    /\ UNCHANGED <<tilerVars, mainVars, callVars>>

(* lines 153-158: rename(tmp_dest, dest); a failed rename is warned of and *)
(* is exit(1)                                                              *)
RunRename ==
    /\ rpc = "rename"
    /\ LET tmp == TmpDest(args.image)
           ops == Io("rename", tmp) \o Msg(args.verbose.warn)
       IN  \/ RunStep("rename", frame, Io("rename", tmp),
                      [files EXCEPT ![args.image] = files[tmp], ![tmp] = "absent"],
                      "set", status)
           \/ RunStep("rename_failed", frame, ops, files, "exit", 1)
           \/ PanicStep("rename_failed", frame, ops, files)
    /\ UNCHANGED <<args, features, ntiles, colored>>
    /\ UNCHANGED <<tilerVars, mainVars, callVars>>

(* lines 159-212: if args.set { ... }, the last message under prog, and    *)
(* main returns.  With the feature set-wallpaper the block announces       *)
(* itself under prog; it exits with 1 after a warning when                 *)
(* DesktopEnvt::new() fails, before any file is looked at; it then         *)
(* resolves the path of the image and exits with 1 after a warning when    *)
(* canonicalize or into_string fails; it reports the path under info; a    *)
(* failed set_wallpaper only warns, in two lines.  Without the feature     *)
(* the block is three lines of warning and exit(1).                        *)
RunSet ==
    /\ rpc = "set"
    /\ LET v     == args.verbose
           start == Msg(v.prog)
           look  == start \o Io("read", args.image)
           warn2 == Msg(v.warn) \o Msg(v.warn)
       IN  IF ~args.set
           THEN \/ RunStep("set", frame, Msg(v.prog), files, "exit", 0)
                \/ PanicStep("set", frame, Msg(v.prog), files)
           ELSE IF "set-wallpaper" \in features
           THEN \/ RunStep("set", frame, start \o Msg(v.warn), files, "exit", 1)
                \/ PanicStep("set", frame, start \o Msg(v.warn), files)
                \/ RunStep("set", frame, look \o Msg(v.warn), files, "exit", 1)
                \/ PanicStep("set", frame, look \o Msg(v.warn), files)
                \/ \E told \in { <<>>, warn2 } :
                      LET ops == look \o Msg(v.info) \o told \o Msg(v.prog)
                      IN  \/ RunStep("set", frame, ops, files, "exit", 0)
                          \/ PanicStep("set", frame, ops, files)
           ELSE \/ RunStep("set", frame, warn2 \o Msg(v.warn), files, "exit", 1)
                \/ PanicStep("set", frame, warn2 \o Msg(v.warn), files)
    /\ UNCHANGED <<args, features, ntiles, colored>>
    /\ UNCHANGED <<tilerVars, mainVars, callVars>>

(* the files before the run: the destination may exist or not *)
FilesBefore ==
    { [p \in Paths |-> IF p = "out.svg" THEN d
                       ELSE IF p = TmpDest("out.svg") THEN "absent" ELSE "old"] :
        d \in { "absent", "old" } }

RunInit ==
    /\ rpc = "help"
    /\ args \in ArgSets
    /\ features \in Features
    /\ frame = [w |-> 1, h |-> 1]
    /\ files \in FilesBefore
    /\ ntiles = 0
    /\ colored = 0
    /\ status = -1
    /\ events = <<Event("start", frame, <<>>, files)>>
    /\ TilerIdle
    /\ MainIdle
    /\ CallIdle

RunNext ==
    \/ RunHelp
    \/ RunNice
    \/ RunInitFile
    \/ RunReadConfig
    \/ RunWidth
    \/ RunHeight
    \/ RunScene
    \/ RunLoad
    \/ RunLog
    \/ RunMakeTiling
    \/ RunColor
    \/ RunNoDest
    \/ RunSave
    \/ RunRename
    \/ RunSet

RunSpec == RunInit /\ [][RunNext]_vars

(* The tiler on bases whose coordinates are not short dyadic rationals:    *)
(* the f64 nearest to 0.105, to 0.335 and to 0.215, limb by limb.  The     *)
(* sums of such coordinates do not fit the 53-bit significand, and Fl      *)
(* rounds them.                                                            *)
VecF(tx, ty) == PosOf(tx, ty, 0, 0)

F64_0_105 == <<6881, 293601, 293601>>
F64_0_335 == <<21954, 587202, 587204>>
F64_0_215 == <<14090, 251658, 251658>>

RoundedBasisI == { Vec(Unit, 0), Vec(3 * (Unit \div 4), 0) }

RoundedBasisJ ==
    { VecF(F64_0_105, NumOf(3 * (Unit \div 4))), VecF(F64_0_105, NumOf(Unit)),
      VecF(F64_0_335, NumOf(3 * (Unit \div 4))),
      VecF(F64_0_215, NumOf(3 * (Unit \div 4))), Vec(0, Unit) }

RoundedInit ==
    /\ \E fr \in Frames, i \in RoundedBasisI, j \in RoundedBasisJ, n \in 0..MaxGen :
          TilerStart(fr, i, j, n)
    /\ MainIdle
    /\ CallIdle
    /\ RunIdle

RoundedSpec == RoundedInit /\ [][Next]_vars

(* The tiler as a running loop.  The loop is sequential code: whenever an   *)
(* iteration can run, it runs.  The bases are independent ones (axis,      *)
(* sheared, half step), a parallel pair and the zero vector.               *)
FairBasis ==
    { Vec(Unit, 0), Vec(0, Unit), Vec(Unit \div 2, 0), Vec(Unit \div 4, -Unit),
      Vec(0, 0) }

FairInit ==
    /\ \E fr \in Frames, i \in FairBasis, j \in FairBasis :
          TilerStart(fr, i, j, MaxGen)
    /\ MainIdle
    /\ CallIdle
    /\ RunIdle

FairSpec == FairInit /\ [][Next]_vars /\ WF_vars(Next)

----------------------------------------------------------------------------
(* Vocabulary of the tiler's properties.                                   *)

RECURSIVE Gcd(_, _)
Gcd(a, b) == IF b = 0 THEN a ELSE Gcd(b, a % b)

(* the direction of a non-zero vector, as a primitive integer pair *)
Primitive(v) ==
    LET g == Gcd(Abs(v.x), Abs(v.y))
    IN  <<v.x \div g, v.y \div g>>

IsZero(v) == v.x = 0 /\ v.y = 0

(* idir and jdir are linearly independent: none is zero, not parallel *)
LinearlyIndependent(a, b) ==
    /\ ~IsZero(a)
    /\ ~IsZero(b)
    /\ Primitive(a) # Primitive(b)
    /\ Primitive(a) # <<-Primitive(b)[1], -Primitive(b)[2]>>

(* the lattice site center + i*idir + j*jdir, in exact arithmetic, of a    *)
(* basis whose coordinates are whole numbers of 1/Unit                     *)
LatticeSite(i, j) ==
    LET c == FrameCenter(f)
    IN  PosOf(NumOf(c.x + i * idir.x + j * jdir.x),
              NumOf(c.y + i * idir.y + j * jdir.y), i, j)

LatticeRange == 4

CalledAt(s) == \E k \in 1..Len(calls) : PosEqNoRound(calls[k], s)

RECURSIVE GenOver(_)
GenOver(cs) ==
    IF cs = <<>> THEN <<>> ELSE Gen(Head(cs), gen_n) \o GenOver(Tail(cs))

(* a basis vector longer than the 1/100 that Pos::round resolves *)
Resolved(v) == Abs(v.x) * 100 >= Unit \/ Abs(v.y) * 100 >= Unit

\* C1: every call of Scene::color returns a sample of the first region of
\* scene.items that contains the point, whatever later regions contain it,
\* and a sample of the background exactly when no region contains it.
C1_FirstMatchWins ==
    \A n \in 1..Len(queries) :
        LET q   == queries[n]
            its == scene.items
            src == IF q.hit = 0 THEN scene.bg ELSE its[q.hit].color
        IN  /\ q.hit \in 0..Len(its)
            /\ q.hit # 0 =>
                  /\ Contains(its[q.hit], q.p)
                  /\ \A j \in 1..(q.hit - 1) : ~Contains(its[j], q.p)
            /\ q.hit = 0 <=> (\A j \in 1..Len(its) : ~Contains(its[j], q.p))
            /\ q.sampled = <<src>>
            /\ \E d \in Draws(src) : q.ret = ColorItemSample(src, d)

C1_Witness ==
    /\ \E n \in 1..Len(queries) :
          /\ queries[n].hit # 0
          /\ \E j \in (queries[n].hit + 1)..Len(scene.items) :
                /\ Contains(scene.items[j], queries[n].p)
                /\ scene.items[j] # scene.items[queries[n].hit]
    /\ \E n \in 1..Len(queries) : queries[n].hit = 0

\* C5: the generation pass adds one element per pair of the tiling, in the
\* tiling's order, filled with the result of the Scene::color query made
\* with that pair's own representative point.
C5_OneElementPerPair ==
    /\ Len(document) = Len(queries)
    /\ Len(document) <= Len(tiling)
    /\ mpc = "generated" => Len(document) = Len(tiling)
    /\ \A n \in 1..Len(document) :
          /\ document[n].path = tiling[n].path
          /\ queries[n].p = tiling[n].pos
          /\ document[n].fill = queries[n].ret

C5_Witness ==
    /\ mpc = "generated"
    /\ Len(document) >= 2
    /\ tiling[1].pos # tiling[2].pos
    /\ document[1].fill # document[2].fill

SqDist(p, c) == (p.x - c.x) * (p.x - c.x) + (p.y - c.y) * (p.y - c.y)

IsDiscCase(x, y) ==
    /\ call.region.center = Pos(0, 0)
    /\ call.region.radius = 50
    /\ call.p = Pos(x, y)

\* C6: Disc::contains is Some exactly when the squared distance of p to
\* the center is below radius squared; with center (0,0) and radius 5 the
\* boundary point (3,4) is not contained and (3,3.9) is (in 1/10).
C6_DiscStrict ==
    (call.fn = "Disc::contains" /\ ret.done) =>
        /\ ret.v <=> SqDist(call.p, call.region.center)
                        < call.region.radius * call.region.radius
        /\ IsDiscCase(30, 40) => ret.v = FALSE
        /\ IsDiscCase(30, 39) => ret.v = TRUE

C6_Witness ==
    /\ call.fn = "Disc::contains"
    /\ ret.done
    /\ IsDiscCase(30, 40)
    /\ ret.v = FALSE

(* twice the signed area of p, a, b *)
Orient(p, a, b) == (a.x - p.x) * (b.y - p.y) - (b.x - p.x) * (a.y - p.y)

(* p lies in the closed triangle a, b, c, for either winding *)
InClosedTriangle(t, p) ==
    LET o1 == Orient(p, t.a, t.b)
        o2 == Orient(p, t.b, t.c)
        o3 == Orient(p, t.c, t.a)
    IN  \/ (o1 >= 0 /\ o2 >= 0 /\ o3 >= 0)
        \/ (o1 <= 0 /\ o2 <= 0 /\ o3 <= 0)

\* C7: Triangle::contains is Some exactly for the points of the closed
\* triangle a, b, c (interior, edges, vertices), for either winding.
C7_ClosedTriangle ==
    (call.fn = "Triangle::contains" /\ ret.done
        /\ Orient(call.region.a, call.region.b, call.region.c) # 0) =>
        (ret.v <=> InClosedTriangle(call.region, call.p))

\* C8: the representative point of every triangle random_delaunay emits is
\* (a + b + c) / 3 (the emitted point is in 1/100).
C8_Centroid ==
    (call.fn = "random_delaunay" /\ ret.done /\ ~ret.panic) =>
        \A k \in 1..Len(ret.v) :
            LET t == ret.v[k].path
            IN  /\ 3 * ret.v[k].pos.x = 100 * (t[1].x + t[2].x + t[3].x)
                /\ 3 * ret.v[k].pos.y = 100 * (t[1].y + t[2].y + t[3].y)

RecipeNames ==
    { "tile_hexagons", "tile_triangles", "tile_hybrid_hexagons_triangles",
      "tile_hybrid_squares_triangles", "tile_rhombus", "pentagons_type1" }

(* the cross product idir x jdir *)
QCross(a, b) == QSub(QMul(a.x, b.y), QMul(a.y, b.x))

\* C9: every recipe hands periodic_grid_tiling an idir and a jdir that are
\* linearly independent.
C9_RecipeBasisIndependent ==
    (call.fn \in RecipeNames /\ ret.done) =>
        ~QIsZero(QCross(ret.v.idir, ret.v.jdir))

\* C2: on return, with a linearly independent basis, gen has run on the
\* center and on every lattice site inside the frame, and items is exactly
\* the outputs of gen on in-frame lattice sites.  (Stated for the bases
\* whose steps Pos::round tells apart, the case stated.)
C2_EveryInFrameSiteTiled ==
    (pc = "done" /\ LinearlyIndependent(idir, jdir)
                /\ Resolved(idir) /\ Resolved(jdir)) =>
        /\ CalledAt(FrameCenter(f))
        /\ \A i \in -LatticeRange..LatticeRange, j \in -LatticeRange..LatticeRange :
              FrameIsInside(f, LatticeSite(i, j)) => CalledAt(LatticeSite(i, j))
        /\ \A k \in 1..Len(calls) : FrameIsInside(f, calls[k])
        /\ items = GenOver(calls)

\* C3: no lattice coordinate has two entries in the visited set, and gen is
\* not invoked twice on one lattice coordinate.
C3_OneEntryPerSite ==
    /\ \A a \in set, b \in set : (a.li = b.li /\ a.lj = b.lj) => a = b
    /\ \A m \in 1..Len(calls), n \in 1..Len(calls) :
          (calls[m].li = calls[n].li /\ calls[m].lj = calls[n].lj) => m = n

\* C4: the tiler terminates: the stack runs empty and the tiling is returned.
C4_Termination == <>(pc = "done")

C4_Witness == pc = "done" /\ Len(calls) >= 9 /\ Cardinality(set) > Len(calls)

\* C10: a linearly dependent basis is rejected: gen is never invoked and no
\* tiling is returned.
C10_DegenerateBasisRejected ==
    ~LinearlyIndependent(idir, jdir) => (calls = <<>> /\ pc # "done")

(* the positions one basis-vector step away from a position of S *)
OneStep(S) == { Neighbour(q, Dirs[k]) : q \in S, k \in 1..Len(Dirs) }

\* C13: a popped site outside the frame is dropped with no call of gen and
\* no push, and every position of the visited set is inside the frame or
\* one basis-vector step away from a visited site inside the frame.
C13_OneRing ==
    /\ [][(pc = "loop" /\ stk # <<>> /\ ~FrameIsInside(f, Top(stk))) =>
            (items' = items /\ calls' = calls /\ set' = set
                /\ stk' = PopRest(stk))]_vars
    /\ [](\A k \in 1..Len(calls) : FrameIsInside(f, calls[k]))
    /\ [](LET ring == OneStep({ q \in set : FrameIsInside(f, q) })
          IN  \A p \in set :
                \/ FrameIsInside(f, p)
                \/ \E r \in ring : PosEqNoRound(r, p))

C13_Witness ==
    /\ pc = "done"
    /\ Len(calls) >= 2
    /\ \E p \in set : ~FrameIsInside(f, p)

(* the positions pushed by a step: the new stack without what the pop left *)
Pushed(old, new) == SubSeq(new, Len(old), Len(new))

\* C14: every position on the work stack is in the visited set; a step
\* pushes only positions the set did not hold (by Pos's equality), each of
\* them once, inserts them in the same step, and the set never loses a
\* position: no position is pushed twice in a run.
C14_VisitedOnPush ==
    /\ [](\A k \in 1..Len(stk) : stk[k] \in set)
    /\ [][pc = "loop" /\ stk # <<>> =>
            LET ps == Pushed(stk, stk')
            IN  /\ set \subseteq set'
                /\ SubSeq(stk', 1, Len(stk) - 1) = PopRest(stk)
                /\ \A k \in 1..Len(ps) :
                      /\ ~SetContains(set, ps[k])
                      /\ ps[k] \in set'
                      /\ \A m \in 1..(k - 1) : ~PosEq(ps[m], ps[k])
                /\ Cardinality(set') = Cardinality(set) + Len(ps)]_vars

C14_Witness ==
    /\ pc = "loop"
    /\ Len(calls) >= 2
    /\ Len(stk) >= 3
    /\ \E k \in 1..Len(Dirs) : SetContains(set, Neighbour(Top(stk), Dirs[k]))

\* C15: a call of Scene::color samples exactly one ColorItem: the regions
\* tested are those up to the first that contains the point, a region that
\* does not contain the point samples nothing, the regions after the match
\* are not tested, the background is sampled only when all regions fail;
\* the call changes neither the background nor the region list.
C15_OneSamplePerCall ==
    /\ [](\A n \in 1..Len(queries) :
            LET q   == queries[n]
                its == scene.items
                last == Len(q.tested)
            IN  /\ Len(q.sampled) = 1
                /\ \A k \in 1..last : q.tested[k] = k
                /\ \A k \in 1..last :
                      ~Contains(its[k], q.p) => ContainsSamples(its[k], q.p) = <<>>
                /\ \A k \in 1..(last - 1) : ~Contains(its[k], q.p)
                /\ IF last > 0 /\ Contains(its[last], q.p)
                   THEN q.sampled = <<its[last].color>>
                   ELSE last = Len(its) /\ q.sampled = <<scene.bg>>)
    /\ [][scene' = scene]_vars

C15_Witness ==
    /\ Len(scene.items) = 2
    /\ \E n \in 1..Len(queries) :
          /\ Len(queries[n].tested) = 2
          /\ ~Contains(scene.items[1], queries[n].p)
          /\ Contains(scene.items[2], queries[n].p)
    /\ \E n \in 1..Len(queries) :
          /\ Len(queries[n].tested) = 2
          /\ queries[n].sampled = <<scene.bg>>

(* a step named n was taken before step k *)
StepBefore(n, k) == \E j \in 1..(k - 1) : events[j].step = n

(* step k comes after the picking of the configuration, and the frame      *)
(* after it differs from the frame before it                               *)
FrameChangedAt(k) ==
    /\ k > 1
    /\ events[k].frame # events[k - 1].frame
    /\ StepBefore("config", k)

\* C11: after the configuration is picked, the frame is changed only by
\* the --width and --height steps, before tiling begins.
C11_FrameOnlyByOverrides ==
    \A k \in 1..Len(events) :
        FrameChangedAt(k) =>
            /\ events[k].step \in { "width", "height" }
            /\ ~StepBefore("tiling", k)

\* C11 (amended): after the configuration is picked, the frame is changed
\* only by the --width and --height steps and by the --load step of a run
\* given --load, all before tiling begins; the --log step and every step
\* from the tiling on leave it unchanged.
C11_FrameByOverridesOrLoad ==
    \A k \in 1..Len(events) :
        FrameChangedAt(k) =>
            /\ events[k].step \in { "width", "height", "load" }
            /\ events[k].step = "width" => args.width # <<>>
            /\ events[k].step = "height" => args.height # <<>>
            /\ events[k].step = "load" => args.load # ""
            /\ ~StepBefore("tiling", k)

C11_Witness ==
    /\ rpc = "exit"
    /\ colored >= 2
    /\ args.log # ""
    /\ \E k \in 1..Len(events) : FrameChangedAt(k) /\ events[k].step = "width"
    /\ \E k \in 1..Len(events) : FrameChangedAt(k) /\ events[k].step = "load"

(* the number of tiles colored before step k *)
ColoredBefore(k) == Cardinality({ j \in 1..(k - 1) : events[j].step = "color" })

(* the steps of the core: from the construction of the Scene to the        *)
(* coloring of the last tile                                               *)
CoreSteps == { "scene", "load", "log", "tiling", "tiling_panic", "color" }

InCore(k) == events[k].step \in CoreSteps

IsFileOp(o) == o.op # "print"

(* the operations of io on files, those on standard output left out *)
FileOps(io) == SelectSeq(io, IsFileOp)

DestAfter(k) == events[k].files[args.image]

(* the paths the operations of io write *)
WritesOf(io) == { io[i].path : i \in { j \in 1..Len(io) : io[j].op = "write" } }

(* the last step taken *)
LastStep == events[Len(events)].step

(* the run has left the generation loop with every tile colored *)
GenerationDone ==
    /\ \E k \in 1..Len(events) : events[k].step = "tiling"
    /\ colored = ntiles
    /\ rpc # "loop"

(* the image is saved to dest.tmp and nowhere else, after every tile is    *)
(* colored, and the rename follows a successful save                       *)
SavedToTmp ==
    \A k \in 1..Len(events) :
        /\ events[k].step \in { "save", "save_failed" } =>
              /\ WritesOf(events[k].io) \subseteq { TmpDest(args.image) }
              /\ ColoredBefore(k) = ntiles
        /\ events[k].step = "save" =>
              WritesOf(events[k].io) = { TmpDest(args.image) }
        /\ events[k].step = "rename" => events[k - 1].step = "save"

(* the destination changes by the rename only, and a failed save leaves it *)
(* as it was before the run                                                *)
DestOnlyByRename ==
    /\ \A k \in 2..Len(events) :
          DestAfter(k) # DestAfter(k - 1) => events[k].step = "rename"
    /\ (rpc = "exit" /\ LastStep = "save_failed") =>
          files[args.image] = events[1].files[args.image]

(* a run that leaves the generation loop with an empty destination ends in *)
(* the step of lines 133-138                                               *)
EmptyDestEnds ==
    (GenerationDone /\ args.image = "") => (rpc = "exit" /\ LastStep = "no_dest")

\* C16: the image is never written to the destination path: it is saved to
\* dest.tmp, the destination changes only by the rename after a successful
\* save, after every tile is colored; with an empty destination or a failed
\* save the run exits with status 1 and the destination is unchanged.
C16_DestOnlyByRename ==
    /\ SavedToTmp
    /\ EmptyDestEnds
    /\ args.image # "" => DestOnlyByRename
    /\ (rpc = "exit" /\ LastStep \in { "no_dest", "save_failed" }) => status = 1

\* C16 (amended): the image is saved to dest.tmp only, after every tile is
\* colored, and the rename follows a successful save.  A run that leaves
\* the loop with an empty destination, or whose save fails, exits with
\* status 1, or with the status of a panic when --verbose asks for the
\* message that goes with the exit (progress for the empty destination,
\* progress or warnings for the save) and it cannot be printed.  When
\* neither the --log path nor the --init path is the destination path, the
\* destination changes by the rename only and a failed save leaves it
\* unchanged.
C16_DestOnlyByRenameUnlessLogged ==
    /\ SavedToTmp
    /\ EmptyDestEnds
    /\ (args.image # "" /\ args.log # args.image /\ args.init # args.image) =>
          DestOnlyByRename
    /\ (rpc = "exit" /\ LastStep = "no_dest") =>
          \/ status = 1
          \/ status = PanicStatus /\ args.verbose.prog
    /\ (rpc = "exit" /\ LastStep = "save_failed") =>
          \/ status = 1
          \/ status = PanicStatus /\ (args.verbose.prog \/ args.verbose.warn)

C16_Witness ==
    /\ rpc = "exit"
    /\ status = 0
    /\ args.log # ""
    /\ args.log # args.image
    /\ colored >= 2
    /\ events[1].files[args.image] = "old"
    /\ files[args.image] = "image"
    /\ \E k \in 2..Len(events) :
          /\ events[k].step = "rename"
          /\ DestAfter(k) # DestAfter(k - 1)
          /\ events[k - 1].step = "save"

====
